---- MODULE Spec2Model ----
(***************************************************************************)
(* A model of the face-recognition attendance pipeline:                    *)
(*   - EncodingProvider  (encoding_provider.py): store validation and the  *)
(*     decision which encodings source to use;                             *)
(*   - ImageEncoder      (image_encoder.py): the lecture/student directory *)
(*     walk, the processed-images ledger, the pickled store;               *)
(*   - FaceIdentification (face_identification.py): nearest-neighbour      *)
(*     matching with a confidence threshold.                               *)
(*                                                                         *)
(* Text (file names, identity keys) is a tuple of one-character strings,   *)
(* so that lower(), endswith(), splitext() and split('_') are computed.    *)
(* A path below the images directory is a tuple of names: <<>> is the      *)
(* directory itself, <<l>> an entry of it, <<l, s>> an entry of <<l>>.     *)
(* Distances and confidences are integers in hundredths (0.60 is 60).      *)
(***************************************************************************)
EXTENDS Integers, Sequences, FiniteSets, TLC

VARIABLES
    \* ---- the file system
    dirs,                   \* paths that are directories
    files,                  \* paths that are regular files
    encFile,                \* content of the encodings file (facial_data.pkl)
    processedFile,          \* content of processed_images.json
    cropped,                \* cropped_faces/: set of <<file name, source path>>
    \* ---- EncodingProvider
    facial_encodings_file,  \* self.facial_encodings_file
    known_faces_dir,        \* self.known_faces_dir
    encoder,                \* self.encoder: "unbound" or "ImageEncoder"
    rpc,                    \* "start", "fields_set", "resolved"
    initRaised,             \* the exception __init__ left with, or NoneValue
    branch,                 \* the branch get_encoding_data took
    result,                 \* what get_encoding_data returned
    \* ---- ImageEncoder
    epc,                    \* position of the encoder
    student_data,           \* self.student_data: a dict, as a sequence of items
    lecTodo, stuTodo, imgTodo,   \* entries the three loops still have to visit
    curLec, curStu, curImg,      \* the lecture, student and image being processed
    encodings,              \* the local list of _encode_student_images
    processed_images,       \* the local set of _encode_student_images
    run,                    \* number of completed runs
    interrupted,            \* the interrupted runs: [run, processed, marked],
                            \* the place of the run in attempts, the images it
                            \* had deleted and the paths it had marked by then
    attempts,               \* run number -> paths _encode_image was called on
    \* ---- FaceIdentification
    mpc,                    \* "start", "ready", "raised"
    known_face_encodings,
    known_face_names,
    lastQuery,              \* the last query embedding
    lastMatch,              \* what _get_face_name returned for it
    queries,                \* number of calls of _get_face_name
    attendance,             \* names passed to AttendanceLogger.log_attendance
    frames,                 \* number of calls of process_frame
    lastFrame,              \* the face encodings detected in the last frame
    face_data,              \* what _identify_faces returned for them
    frameRaised,            \* the exception process_frame left with, or NoneValue
    drawn                   \* the boxes drawn on the last frame: [at, name, conf],
                            \* at the place of the face location in the frame

fsVars == <<dirs, files, encFile, processedFile, cropped>>
resolverVars == <<facial_encodings_file, known_faces_dir, encoder, rpc, initRaised,
                  branch, result>>
encoderVars == <<epc, student_data, lecTodo, stuTodo, imgTodo, curLec, curStu, curImg,
                 encodings, processed_images, run, interrupted, attempts>>
matcherVars == <<mpc, known_face_encodings, known_face_names, lastQuery, lastMatch,
                 queries, attendance, frames, lastFrame, face_data, frameRaised,
                 drawn>>
vars == <<fsVars, resolverVars, encoderVars, matcherVars>>

-----------------------------------------------------------------------------
(* Bounds *)

\* runs of the encoder in one behaviour
MaxRuns == 2
\* files in the images directory at the start
MaxFiles == 3
\* keys of a pickled dict at the start
MaxKeys == 2
\* faces matched in one behaviour
MaxQueries == 2
\* frames processed in one behaviour
MaxFrames == 2
\* faces detected in one frame
MaxFaces == 2

-----------------------------------------------------------------------------
(* Python values *)

\* None, as a return value or an argument
NoneValue == "<None>"

\* bool(x) of an argument that is None or a str
Truthy(x) == x \notin {NoneValue, ""}

\* str.lower() on one character
LowerChar(c) ==
    CASE c = "A" -> "a" [] c = "B" -> "b" [] c = "C" -> "c" [] c = "D" -> "d"
      [] c = "E" -> "e" [] c = "F" -> "f" [] c = "G" -> "g" [] c = "H" -> "h"
      [] c = "I" -> "i" [] c = "J" -> "j" [] c = "K" -> "k" [] c = "L" -> "l"
      [] c = "M" -> "m" [] c = "N" -> "n" [] c = "O" -> "o" [] c = "P" -> "p"
      [] c = "Q" -> "q" [] c = "R" -> "r" [] c = "S" -> "s" [] c = "T" -> "t"
      [] c = "U" -> "u" [] c = "V" -> "v" [] c = "W" -> "w" [] c = "X" -> "x"
      [] c = "Y" -> "y" [] c = "Z" -> "z" [] OTHER -> c

\* str.lower()
lower(s) == [i \in 1..Len(s) |-> LowerChar(s[i])]

\* str.endswith(suffix)
endswith(s, suffix) ==
    /\ Len(suffix) <= Len(s)
    /\ SubSeq(s, Len(s) - Len(suffix) + 1, Len(s)) = suffix

\* os.path.splitext(name)[1] of a name without separators: the text from the
\* last dot on, unless only dots precede that dot
splitext_ext(name) ==
    LET dotsAt == {i \in 1..Len(name) : name[i] = "."}
    IN  IF dotsAt = {} THEN <<>>
        ELSE LET dotIndex == CHOOSE i \in dotsAt : \A j \in dotsAt : j <= i
             IN  IF \E j \in 1..(dotIndex - 1) : name[j] # "."
                 THEN SubSeq(name, dotIndex, Len(name))
                 ELSE <<>>

\* os.path.join(directory, entry)
join(path, entry) == Append(path, entry)

\* os.path.basename, os.path.dirname of a path with at least one component
basename(path) == path[Len(path)]
dirname(path) == SubSeq(path, 1, Len(path) - 1)

-----------------------------------------------------------------------------
(* The file system *)

\* os.path.isdir, os.path.isfile, os.path.exists
isdir(path) == path \in dirs
isfile(path) == path \in files
exists(path) == path \in dirs \cup files

\* os.listdir(path): the names of the entries of a directory
listdir(path) ==
    {basename(p) : p \in {q \in dirs \cup files : Len(q) = Len(path) + 1
                                                /\ dirname(q) = path}}

\* every entry lies in a directory, and nothing is both a file and a directory
WellFormedTree(ds, fs) ==
    /\ ds \cap fs = {}
    /\ \A p \in ds \cup fs : Len(p) > 0 => dirname(p) \in ds

-----------------------------------------------------------------------------
(* Pickled objects: the content of the encodings file *)

\* A file is [kind, dict, items]: kind "absent" (no file), "empty" (zero bytes),
\* "garbage" (bytes pickle.load raises on) or "pickle" (an object); dict tells
\* whether the object is a dict, items are its (key, value) pairs in order.
\* A key is [str, s]: whether it is a str, and its text.
\* A value is [list, elems]: whether it is a list, and its elements.
\* An element is [arr, dim, x, src]: whether it is a numpy array, its length,
\* its position (the vector is (x, 0, ..., 0), in hundredths) and the image
\* it was computed from (<<>> when it comes from no image of the model).
AbsentFile == [kind |-> "absent", dict |-> FALSE, items |-> <<>>]
EmptyFile == [kind |-> "empty", dict |-> FALSE, items |-> <<>>]
GarbageFile == [kind |-> "garbage", dict |-> FALSE, items |-> <<>>]
NonDictFile == [kind |-> "pickle", dict |-> FALSE, items |-> <<>>]
DictFile(items) == [kind |-> "pickle", dict |-> TRUE, items |-> items]

StrKey(s) == [str |-> TRUE, s |-> s]
ListVal(elems) == [list |-> TRUE, elems |-> elems]
Array(dim, x, src) == [arr |-> TRUE, dim |-> dim, x |-> x, src |-> src]

IntKey == [str |-> FALSE, s |-> <<>>]
NotList == [list |-> FALSE, elems |-> <<>>]
NotArray == [arr |-> FALSE, dim |-> 0, x |-> 0, src |-> <<>>]
Item(k, v) == [key |-> k, val |-> v]

\* dict lookups on a sequence of items with distinct keys
DictKeys(d) == {d[i].key : i \in 1..Len(d)}
DictGet(d, k) == d[CHOOSE i \in 1..Len(d) : d[i].key = k].val
\* d[k] = v: an existing key keeps its place, a new key goes last
DictSet(d, k, v) ==
    IF k \in DictKeys(d)
    THEN [i \in 1..Len(d) |-> IF d[i].key = k THEN Item(k, v) ELSE d[i]]
    ELSE Append(d, Item(k, v))

-----------------------------------------------------------------------------
(* Names of the model's universe *)

Lec1 == <<"l", "e", "c", "1">>
Lec2 == <<"l", "e", "c", "2">>
Bob1 == <<"b", "o", "b", "_", "1">>
Amy == <<"a", "m", "y">>
MaryAnn2 == <<"m", "a", "r", "y", "_", "a", "n", "n", "_", "2">>
ImgA == <<"a", ".", "j", "p", "g">>
ImgB == <<"b", ".", "P", "N", "G">>
ImgN == <<"n", ".", "j", "p", "g">>
ImgM == <<"m", ".", "j", "p", "e", "g">>
ImgE == <<"e", ".", "p", "n", "g">>
Txt == <<"t", ".", "t", "x", "t">>
Xjpg == <<"x", "j", "p", "g">>

\* the paths the two arguments of EncodingProvider may name
StorePath == "facial_data.pkl"
FacesPath == "image_db"

-----------------------------------------------------------------------------
(* EncodingProvider *)

\* self.valid_extensions (the default)
valid_extensions ==
    { <<".", "j", "p", "g">>, <<".", "j", "p", "e", "g">>, <<".", "p", "n", "g">> }

\* _is_valid_file: the file exists and is not empty
IsValidFile(f) == f.kind \notin {"absent", "empty"}

\* one (name, encodings) entry passes the three checks of the loop
ValidEntry(it) ==
    /\ it.key.str /\ it.val.list
    /\ \A i \in 1..Len(it.val.elems) : it.val.elems[i].arr
    /\ Len(it.val.elems) > 0

\* a variant of IsValidEncodingFile that rejects a dict without keys
IsValidEncodingFile_nonempty(f) ==
    /\ IsValidFile(f)
    /\ f.kind = "pickle"
    /\ f.dict
    /\ f.items # <<>>
    /\ \A i \in 1..Len(f.items) : ValidEntry(f.items[i])

\* _is_valid_encoding_file
IsValidEncodingFile(f) ==
    /\ IsValidFile(f)
    /\ f.kind = "pickle"          \* pickle.load does not raise
    /\ f.dict                     \* isinstance(contents, dict)
    /\ \A i \in 1..Len(f.items) : ValidEntry(f.items[i])

\* _is_valid_faces_dir: some subdirectory holds a regular file with an allowed
\* extension
IsValidFacesDir ==
    /\ isdir(<<>>)
    /\ \E entry \in listdir(<<>>) :
          /\ isdir(<<entry>>)
          /\ \E file \in listdir(<<entry>>) :
                /\ isfile(<<entry, file>>)
                /\ lower(splitext_ext(file)) \in valid_extensions

\* the parameters ImageEncoder.__init__ accepts, and the methods the class has
ImageEncoderInitParams ==
    {"parent_dir", "output_file", "processed_file", "cropped_faces_dir", "image_types"}
ImageEncoderMethods ==
    {"run", "_initialize_pickle_file", "_initialize_cropped_faces_dir",
     "_process_and_encode_images", "_get_lecture_numbers",
     "_process_students_in_lecture", "_encode_student_images",
     "_is_valid_image_type", "_encode_image", "_crop_face", "_load_processed_images",
     "_save_processed_image", "_save_cropped_image", "_remove_image",
     "_save_encodings"}

\* the keyword arguments EncodingProvider.__init__ passes to ImageEncoder
ProviderEncoderKwargs == {"known_faces_dir", "mirror_video"}

\* ImageEncoder(known_faces_dir=..., mirror_video=...): binding the arguments
ConstructEncoderOutcome ==
    IF ProviderEncoderKwargs \subseteq ImageEncoderInitParams THEN "ok" ELSE "TypeError"

\* self.encoder.process_images(): the attribute lookup
ProcessImagesOutcome(enc) ==
    IF enc = "ImageEncoder" /\ "process_images" \in ImageEncoderMethods
    THEN "called" ELSE "AttributeError"

\* a variant of ResolveBranch that rebuilds from a valid directory although the
\* store is valid
ResolveBranch_rebuilds(file, dir, validEnc, validDir) ==
    IF Truthy(file) /\ Truthy(dir)
    THEN IF ~validEnc /\ ~validDir THEN "both_invalid"
         ELSE IF validDir THEN "build_both"
         ELSE "file_valid_dir_invalid"
    ELSE IF Truthy(file) /\ validEnc THEN "file_only"
    ELSE IF Truthy(dir) /\ validDir THEN "build_dir_only"
    ELSE "no_valid_parameters"

\* the branch of get_encoding_data, its conditions in the order of the code
ResolveBranch(file, dir, validEnc, validDir) ==
    IF Truthy(file) /\ Truthy(dir)
    THEN IF ~validEnc /\ ~validDir THEN "both_invalid"
         ELSE IF validEnc /\ validDir THEN "both_valid"
         ELSE IF validEnc /\ ~validDir THEN "file_valid_dir_invalid"
         ELSE IF validDir /\ ~validEnc THEN "build_both"
         ELSE "no_valid_parameters"
    ELSE IF Truthy(file) /\ validEnc THEN "file_only"
    ELSE IF Truthy(dir) /\ validDir THEN "build_dir_only"
    ELSE "no_valid_parameters"

BuildBranches == {"build_both", "build_dir_only"}
ReuseBranches == {"both_valid", "file_valid_dir_invalid", "file_only"}

\* what get_encoding_data returns on a branch; an exception of the call to
\* process_images is caught by the handler of the method, which returns None
ReturnValue(b, file, enc) ==
    IF b \in ReuseBranches THEN file
    ELSE IF b \in BuildBranches /\ ProcessImagesOutcome(enc) = "called"
         THEN "<process_images()>"
    ELSE NoneValue

\* EncodingProvider.__init__(facial_encodings_file, known_faces_dir): the four
\* assignments, then the construction of the encoder
Construct(file, dir) ==
    /\ rpc = "start"
    /\ facial_encodings_file' = file
    /\ known_faces_dir' = dir
    /\ encoder' = IF ConstructEncoderOutcome = "ok" THEN "ImageEncoder" ELSE "unbound"
    /\ initRaised' = IF ConstructEncoderOutcome = "ok" THEN NoneValue
                     ELSE ConstructEncoderOutcome
    /\ rpc' = "fields_set"
    /\ UNCHANGED <<branch, result, fsVars, encoderVars, matcherVars>>

\* get_encoding_data, on the receiver as the assignments of __init__ leave it
GetEncodingData ==
    /\ rpc = "fields_set"
    /\ LET b == ResolveBranch(facial_encodings_file, known_faces_dir,
                              IsValidEncodingFile(encFile), IsValidFacesDir)
       IN  /\ branch' = b
           /\ result' = ReturnValue(b, facial_encodings_file, encoder)
    /\ rpc' = "resolved"
    /\ UNCHANGED <<facial_encodings_file, known_faces_dir, encoder, initRaised,
                   fsVars, encoderVars, matcherVars>>

-----------------------------------------------------------------------------
(* ImageEncoder *)

\* self.image_types (the default): suffixes, without a dot
image_types == { <<"j", "p", "e", "g">>, <<"j", "p", "g">>, <<"p", "n", "g">> }

\* _is_valid_image_type
is_valid_image_type(image_file) ==
    \E ext \in image_types : endswith(lower(image_file), ext)

\* face_recognition.load_image_file and face_locations on the image at a path:
\* the number of faces found, -1 when loading or detection raises.  The
\* detector is a function of the image; the universe fixes it by file name
\* (e.png is a file that cannot be decoded).
face_locations(img_path) ==
    LET name == basename(img_path)
    IN  CASE name = ImgA -> 1
          [] name = ImgB -> 1
          [] name = Xjpg -> 1
          [] name = ImgN -> 0
          [] name = ImgM -> 2
          [] OTHER -> -1

\* face_recognition.face_encodings(image, face_locations)[0]
face_encoding(img_path) ==
    LET name == basename(img_path)
    IN  Array(128, (CASE name = ImgA -> 0 [] name = ImgB -> 30 [] OTHER -> 50), img_path)

\* the encoding _encode_image returns for None
NoneEncoding == [arr |-> FALSE, dim |-> 0, x |-> 0, src |-> <<>>]

\* a variant of encode_image with the first-match policy: the encoding of the
\* first face when at least one face is found
encode_image_first_match(img_path) ==
    IF face_locations(img_path) >= 1 THEN face_encoding(img_path) ELSE NoneEncoding

\* _encode_image: the encoding, or None for no face, several faces or an error
encode_image(img_path) ==
    IF face_locations(img_path) = 1 THEN face_encoding(img_path) ELSE NoneEncoding

\* the ledger file: kind "absent", "corrupt" (json.load raises) or "list"
AbsentLedger == [kind |-> "absent", paths |-> {}]
CorruptLedger == [kind |-> "corrupt", paths |-> {}]
ListLedger(paths) == [kind |-> "list", paths |-> paths]

\* a variant of load_processed_images that reads every ledger as empty
load_processed_images_forgets(f) == {}

\* _load_processed_images: the set of the listed paths; the empty set when
\* the file does not exist or cannot be read
load_processed_images(f) == IF f.kind = "list" THEN f.paths ELSE {}

\* a variant of save_processed_image that writes the new path alone, without
\* loading the paths recorded so far
save_processed_image_only_new(f, img_path) == ListLedger({img_path})

\* _save_processed_image: what is written back
save_processed_image(f, img_path) ==
    ListLedger(load_processed_images(f) \cup {img_path})

\* _save_cropped_image: the file written, <base name>_cropped.jpg, and its source
CropName(img_path) ==
    LET name == basename(img_path)
        ext == splitext_ext(name)
    IN  SubSeq(name, 1, Len(name) - Len(ext))
            \o <<"_", "c", "r", "o", "p", "p", "e", "d", ".", "j", "p", "g">>
save_cropped_image(dir, img_path) ==
    {c \in dir : c[1] # CropName(img_path)} \cup {<<CropName(img_path), img_path>>}

\* _initialize_pickle_file: an absent output file is created with an empty dict
initialize_pickle_file(f) == IF f.kind = "absent" THEN DictFile(<<>>) ELSE f

\* a variant of AfterEncode that never marks or removes an encoded image
AfterEncode_forgets(encoding) == "images"

\* a variant of AfterEncode that leaves the folder at the first image that
\* cannot be encoded
AfterEncode_aborts(encoding) == IF encoding # NoneEncoding THEN "encoded" ELSE "students"

\* where _encode_student_images goes after _encode_image returned
AfterEncode(encoding) == IF encoding # NoneEncoding THEN "encoded" ELSE "images"

\* the end of _encode_student_images: self.student_data[student_id] = encodings
StoreEncodings(data, student_id, encs) ==
    IF encs # <<>> THEN DictSet(data, StrKey(student_id), ListVal(encs)) ELSE data

\* the paths _encode_image was called on in the current run
Attempt(att, img_path) == [att EXCEPT ![Len(att)] = @ \cup {img_path}]

walkVars == <<lecTodo, stuTodo, imgTodo, curLec, curStu, curImg, encodings,
              processed_images>>

\* ImageEncoder(): a new process constructs the encoder
NewEncoder ==
    /\ epc \in {"none", "idle"}
    /\ epc' = "idle"
    /\ student_data' = <<>>
    /\ encFile' = initialize_pickle_file(encFile)
    /\ UNCHANGED <<dirs, files, processedFile, cropped, walkVars, run, interrupted,
                   attempts,
                   resolverVars, matcherVars>>

\* run() up to the loop over the lectures: _get_lecture_numbers
StartRun ==
    /\ epc = "idle"
    /\ Len(attempts) < MaxRuns
    /\ attempts' = Append(attempts, {})
    /\ lecTodo' = IF isdir(<<>>) THEN listdir(<<>>) ELSE {}
    /\ epc' = IF lecTodo' = {} THEN "save" ELSE "lectures"
    /\ UNCHANGED <<fsVars, student_data, stuTodo, imgTodo, curLec, curStu, curImg,
                   encodings, processed_images, run, interrupted, resolverVars,
                   matcherVars>>

\* one iteration of the loop over the lectures
NextLecture ==
    /\ epc = "lectures"
    /\ \E l \in lecTodo :
          /\ lecTodo' = lecTodo \ {l}
          /\ IF isdir(<<l>>) /\ listdir(<<l>>) # {}
             THEN /\ curLec' = l
                  /\ stuTodo' = listdir(<<l>>)
                  /\ epc' = "students"
             ELSE UNCHANGED <<curLec, stuTodo, epc>>
    /\ UNCHANGED <<fsVars, student_data, imgTodo, curStu, curImg, encodings,
                   processed_images, run, interrupted, attempts, resolverVars, matcherVars>>

\* the loop over the lectures is exhausted
EndLectures ==
    /\ epc = "lectures" /\ lecTodo = {}
    /\ epc' = "save"
    /\ UNCHANGED <<fsVars, student_data, walkVars, run, interrupted, attempts, resolverVars,
                   matcherVars>>

\* one iteration of the loop over the students of a lecture; for a student
\* directory with entries, the start of _encode_student_images
NextStudent ==
    /\ epc = "students"
    /\ \E s \in stuTodo :
          /\ stuTodo' = stuTodo \ {s}
          /\ IF isdir(<<curLec, s>>) /\ listdir(<<curLec, s>>) # {}
             THEN /\ curStu' = s
                  /\ encodings' = <<>>
                  /\ processed_images' = load_processed_images(processedFile)
                  /\ imgTodo' = listdir(<<curLec, s>>)
                  /\ epc' = "images"
             ELSE UNCHANGED <<curStu, encodings, processed_images, imgTodo, epc>>
    /\ UNCHANGED <<fsVars, student_data, lecTodo, curLec, curImg, run, interrupted,
                   attempts,
                   resolverVars, matcherVars>>

\* the loop over the students is exhausted
EndStudents ==
    /\ epc = "students" /\ stuTodo = {}
    /\ epc' = "lectures"
    /\ UNCHANGED <<fsVars, student_data, walkVars, run, interrupted, attempts, resolverVars,
                   matcherVars>>

\* one iteration of the loop over the files of a student, up to
\* encodings.append
NextImage ==
    /\ epc = "images"
    /\ \E f \in imgTodo :
          LET img_path == <<curLec, curStu, f>>
          IN  /\ imgTodo' = imgTodo \ {f}
              /\ IF ~is_valid_image_type(f) \/ img_path \in processed_images
                 THEN UNCHANGED <<attempts, encodings, curImg, epc>>
                 ELSE /\ attempts' = Attempt(attempts, img_path)
                      /\ epc' = AfterEncode(encode_image(img_path))
                      /\ IF epc' = "encoded"
                         THEN /\ encodings' = Append(encodings, encode_image(img_path))
                              /\ curImg' = img_path
                         ELSE UNCHANGED <<encodings, curImg>>
    /\ UNCHANGED <<fsVars, student_data, lecTodo, stuTodo, curLec, curStu,
                   processed_images, run, interrupted, resolverVars, matcherVars>>

\* self._save_processed_image(img_path)
SaveProcessedImage ==
    /\ epc = "encoded"
    /\ processedFile' = save_processed_image(processedFile, curImg)
    /\ epc' = "marked"
    /\ UNCHANGED <<dirs, files, encFile, cropped, student_data, walkVars, run, interrupted,
                   attempts, resolverVars, matcherVars>>

\* self._save_cropped_image(cropped_face, img_path)
SaveCroppedImage ==
    /\ epc = "marked"
    /\ cropped' = save_cropped_image(cropped, curImg)
    /\ epc' = "cropped"
    /\ UNCHANGED <<dirs, files, encFile, processedFile, student_data, walkVars, run,
                   interrupted,
                   attempts, resolverVars, matcherVars>>

\* self._remove_image(img_path)
RemoveImage ==
    /\ epc = "cropped"
    /\ files' = files \ {curImg}
    /\ epc' = "images"
    /\ UNCHANGED <<dirs, encFile, processedFile, cropped, student_data, walkVars,
                   run, interrupted, attempts, resolverVars, matcherVars>>

\* the loop over the files is exhausted: the end of _encode_student_images
EndImages ==
    /\ epc = "images" /\ imgTodo = {}
    /\ student_data' = StoreEncodings(student_data, curStu, encodings)
    /\ epc' = "students"
    /\ UNCHANGED <<fsVars, walkVars, run, interrupted, attempts, resolverVars, matcherVars>>

\* _save_encodings: the whole of self.student_data overwrites the output file
SaveEncodings ==
    /\ epc = "save"
    /\ encFile' = DictFile(student_data)
    /\ run' = run + 1
    /\ epc' = "idle"
    /\ UNCHANGED <<dirs, files, processedFile, cropped, student_data, walkVars,
                   interrupted, attempts, resolverVars, matcherVars>>

\* _load_processed_images when open or json.load raises on a ledger file that
\* holds a list (an I/O error): the handler returns set()
load_processed_images_error(f) == {}

\* _save_processed_image when its read of the ledger raises: the new path is
\* added to the empty set and the file is rewritten
save_processed_image_read_error(f, img_path) ==
    ListLedger(load_processed_images_error(f) \cup {img_path})

\* the start of _encode_student_images when the read of the ledger raises
NextStudentReadError ==
    /\ epc = "students"
    /\ processedFile.kind = "list"
    /\ \E s \in stuTodo :
          /\ isdir(<<curLec, s>>) /\ listdir(<<curLec, s>>) # {}
          /\ stuTodo' = stuTodo \ {s}
          /\ curStu' = s
          /\ encodings' = <<>>
          /\ processed_images' = load_processed_images_error(processedFile)
          /\ imgTodo' = listdir(<<curLec, s>>)
          /\ epc' = "images"
    /\ UNCHANGED <<fsVars, student_data, lecTodo, curLec, curImg, run, interrupted,
                   attempts,
                   resolverVars, matcherVars>>

\* self._save_processed_image(img_path) when its read of the ledger raises
SaveProcessedImageReadError ==
    /\ epc = "encoded"
    /\ processedFile.kind = "list"
    /\ processedFile' = save_processed_image_read_error(processedFile, curImg)
    /\ epc' = "marked"
    /\ UNCHANGED <<dirs, files, encFile, cropped, student_data, walkVars, run, interrupted,
                   attempts, resolverVars, matcherVars>>

\* self._save_processed_image(img_path) when open(..., 'w') raises: the
\* handler logs, the file is as it was
SaveProcessedImageWriteError ==
    /\ epc = "encoded"
    /\ epc' = "marked"
    /\ UNCHANGED <<fsVars, student_data, walkVars, run, interrupted, attempts, resolverVars,
                   matcherVars>>

\* the positions of a run between its start and _save_encodings
Running == {"lectures", "students", "images", "encoded", "marked", "cropped", "save"}

\* the process is stopped (killed, power lost) during run(), before
\* _save_encodings: what it held in memory is gone, the files are as the
\* steps so far left them
Interrupt ==
    /\ epc \in Running
    /\ interrupted' = interrupted \cup
          {[run |-> Len(attempts),
            processed |-> attempts[Len(attempts)] \ files,
            marked |-> attempts[Len(attempts)] \cap load_processed_images(processedFile)]}
    /\ epc' = "none"
    /\ student_data' = <<>>
    /\ lecTodo' = {} /\ stuTodo' = {} /\ imgTodo' = {}
    /\ curLec' = <<>> /\ curStu' = <<>> /\ curImg' = <<>>
    /\ encodings' = <<>> /\ processed_images' = {}
    /\ UNCHANGED <<fsVars, run, attempts, resolverVars, matcherVars>>

-----------------------------------------------------------------------------
(* FaceIdentification *)

\* self.MIN_CONFIDENCE_THRESHOLD, in hundredths
MIN_CONFIDENCE_THRESHOLD == 60

UnknownName == <<"U", "n", "k", "n", "o", "w", "n">>

\* what _get_face_name leaves with: a (name, confidence) pair, the pair
\* (None, None), or an exception.
\* kind: "match" for (name_without_id, confidence_score), "unknown" for
\* ("Unknown", 0.0), "none" for (None, None), else the exception's name
Pair(name, conf) == [kind |-> "match", name |-> name, conf |-> conf]
UnknownPair == [kind |-> "unknown", name |-> UnknownName, conf |-> 0]
NonePair == [kind |-> "none", name |-> <<>>, conf |-> 0]
Raised(exc) == [kind |-> exc, name |-> <<>>, conf |-> 0]

\* _load_data_from_file: the unpickled object, None when open or load raises
LoadsObject(f) == f.kind = "pickle"

\* _extract_face_encodings_and_names: one name per key, every encoding of
\* every value
RECURSIVE ExtractEncodings(_)
ExtractEncodings(items) ==
    IF items = <<>> THEN <<>>
    ELSE Head(items).val.elems \o ExtractEncodings(Tail(items))
ExtractNames(items) == [i \in 1..Len(items) |-> items[i].key.s]

\* matched_name.split('_')[0]
SplitFirst(name) ==
    LET at == {i \in 1..Len(name) : name[i] = "_"}
    IN  IF at = {} THEN name
        ELSE SubSeq(name, 1, (CHOOSE i \in at : \A j \in at : i <= j) - 1)

\* face_recognition.face_distance on two vectors of the form (x, 0, ..., 0)
Abs(n) == IF n < 0 THEN -n ELSE n
face_distance(known, query) == Abs(known.x - query.x)

\* a variant of ArgMin that takes the last index of a minimal distance
ArgMin_last(dist) ==
    CHOOSE i \in 1..Len(dist) :
        /\ \A j \in 1..Len(dist) : dist[i] <= dist[j]
        /\ \A j \in (i + 1)..Len(dist) : dist[j] > dist[i]

\* np.argmin: the first index of a minimal distance
ArgMin(dist) ==
    CHOOSE i \in 1..Len(dist) :
        /\ \A j \in 1..Len(dist) : dist[i] <= dist[j]
        /\ \A j \in 1..(i - 1) : dist[j] > dist[i]

\* a variant of get_face_name without the check for an empty list of known
\* encodings: it falls through to the no-decision result
get_face_name_unguarded(encs, names, query) ==
    IF Len(encs) = 0 THEN NonePair
    ELSE LET dist == [i \in 1..Len(encs) |-> face_distance(encs[i], query)]
             best_match_index == ArgMin(dist)
             confidence_score == 100 - dist[best_match_index]
         IN  IF confidence_score < MIN_CONFIDENCE_THRESHOLD THEN NonePair
             ELSE IF best_match_index > Len(names) THEN Raised("IndexError")
             ELSE Pair(SplitFirst(names[best_match_index]), confidence_score)

\* _get_face_name
get_face_name(encs, names, query) ==
    IF Len(encs) = 0 THEN UnknownPair
    ELSE LET dist == [i \in 1..Len(encs) |-> face_distance(encs[i], query)]
             best_match_index == ArgMin(dist)
             confidence_score == 100 - dist[best_match_index]
         IN  IF confidence_score < MIN_CONFIDENCE_THRESHOLD THEN NonePair
             \* self.known_face_names[best_match_index]
             ELSE IF best_match_index > Len(names) THEN Raised("IndexError")
             ELSE Pair(SplitFirst(names[best_match_index]), confidence_score)

\* whether the call reached self.attendance_logger.log_attendance
Logs(match) == match.kind = "match"

\* FaceIdentification(facial_encodings_file): _load_known_people
ConstructMatcher ==
    /\ mpc = "start"
    /\ IF ~LoadsObject(encFile)
       THEN /\ known_face_encodings' = <<>>
            /\ known_face_names' = <<>>
            /\ mpc' = "ready"
       ELSE IF ~encFile.dict \/ \E i \in 1..Len(encFile.items) : ~encFile.items[i].val.list
       THEN \* encoded_faces.items() of an object that is no dict raises, and so
            \* does extend(value) of a value that is no list (a number, here)
            /\ mpc' = "raised"
            /\ UNCHANGED <<known_face_encodings, known_face_names>>
       ELSE /\ known_face_encodings' = ExtractEncodings(encFile.items)
            /\ known_face_names' = ExtractNames(encFile.items)
            /\ mpc' = "ready"
    /\ UNCHANGED <<lastQuery, lastMatch, queries, attendance, frames, lastFrame,
                   face_data, frameRaised, drawn, fsVars, resolverVars, encoderVars>>

\* one call of _get_face_name, as _identify_faces makes it for a detected face
GetFaceName(query) ==
    /\ mpc = "ready"
    /\ queries < MaxQueries
    /\ queries' = queries + 1
    /\ lastQuery' = query
    /\ lastMatch' = get_face_name(known_face_encodings, known_face_names, query)
    /\ attendance' = IF Logs(lastMatch') THEN Append(attendance, lastMatch'.name)
                     ELSE attendance
    /\ UNCHANGED <<mpc, known_face_encodings, known_face_names, frames, lastFrame,
                   face_data, frameRaised, drawn, fsVars, resolverVars, encoderVars>>

\* _identify_faces: the pairs collected for the faces of a frame, in order
\* (a face answered with (None, None) is left out), the names logged on the
\* way, and the exception that ended the loop, if one did
RECURSIVE identify_faces(_, _, _)
identify_faces(encs, names, face_encodings) ==
    IF face_encodings = <<>>
    THEN [data |-> <<>>, logged |-> <<>>, raised |-> NoneValue]
    ELSE LET m == get_face_name(encs, names, Head(face_encodings))
         IN  IF m.kind \notin {"match", "unknown", "none"}
             THEN [data |-> <<>>, logged |-> <<>>, raised |-> m.kind]
             ELSE LET rest == identify_faces(encs, names, Tail(face_encodings))
                  IN  [data |-> (IF m.kind = "none" THEN <<>> ELSE <<m>>) \o rest.data,
                       logged |-> (IF Logs(m) THEN <<m.name>> ELSE <<>>) \o rest.logged,
                       raised |-> rest.raised]

\* _draw_boxes_around_faces: zip(face_locations, face_data) pairs the k-th
\* location with the k-th collected pair and stops at the shorter of the two
draw_boxes_around_faces(locations, data) ==
    LET n == IF Len(locations) <= Len(data) THEN Len(locations) ELSE Len(data)
    IN  [k \in 1..n |-> [at |-> locations[k], name |-> data[k].name,
                         conf |-> data[k].conf]]

\* process_frame on a frame in which _detect_faces found face_encodings:
\* _identify_faces, with no handler between _get_face_name and the caller
ProcessFrame(face_encodings) ==
    /\ mpc = "ready"
    /\ frames < MaxFrames
    /\ frames' = frames + 1
    /\ lastFrame' = face_encodings
    /\ LET r == identify_faces(known_face_encodings, known_face_names, face_encodings)
       IN  /\ frameRaised' = r.raised
           /\ face_data' = IF r.raised = NoneValue THEN r.data ELSE <<>>
           \* the face locations are the places 1..n of the frame's faces
           /\ drawn' = IF r.raised = NoneValue
                       THEN draw_boxes_around_faces(
                               [k \in 1..Len(face_encodings) |-> k], r.data)
                       ELSE <<>>
           /\ attendance' = attendance \o r.logged
    /\ UNCHANGED <<mpc, known_face_encodings, known_face_names, lastQuery, lastMatch,
                   queries, fsVars, resolverVars, encoderVars>>

-----------------------------------------------------------------------------
(* Initial states *)

\* the encoder, the provider and the matcher before any of them exists; "off"
\* is a component the specification at hand does not run
ResolverOff(pc) ==
    /\ rpc = pc
    /\ facial_encodings_file = NoneValue /\ known_faces_dir = NoneValue
    /\ encoder = "unbound" /\ initRaised = NoneValue
    /\ branch = NoneValue /\ result = NoneValue
EncoderOff(pc) ==
    /\ epc = pc
    /\ student_data = <<>>
    /\ lecTodo = {} /\ stuTodo = {} /\ imgTodo = {}
    /\ curLec = <<>> /\ curStu = <<>> /\ curImg = <<>>
    /\ encodings = <<>> /\ processed_images = {}
    /\ run = 0 /\ interrupted = {} /\ attempts = <<>>
MatcherOff(pc) ==
    /\ mpc = pc
    /\ known_face_encodings = <<>> /\ known_face_names = <<>>
    /\ lastQuery = NoneEncoding /\ lastMatch = NonePair
    /\ queries = 0 /\ attendance = <<>>
    /\ frames = 0 /\ lastFrame = <<>> /\ face_data = <<>> /\ frameRaised = NoneValue
    /\ drawn = <<>>

\* sequences of n items with distinct keys
ItemSeqs(itemSet, n) ==
    {d \in [1..n -> itemSet] : \A i, j \in 1..n : d[i].key = d[j].key => i = j}
Dicts(itemSet) == UNION {ItemSeqs(itemSet, n) : n \in 0..MaxKeys}

\* contents of the encodings file the provider may find
SampleKeys == {StrKey(Bob1), StrKey(<<>>), IntKey}
SampleVals ==
    {NotList, ListVal(<<>>), ListVal(<<Array(128, 0, <<>>)>>),
     ListVal(<<Array(128, 0, <<>>), Array(128, 30, <<>>)>>),
     ListVal(<<Array(128, 0, <<>>), Array(64, 0, <<>>)>>),
     ListVal(<<Array(128, 0, <<>>), NotArray>>)}
SampleItems == {Item(k, v) : k \in SampleKeys, v \in SampleVals}
StoreFiles ==
    {AbsentFile, EmptyFile, GarbageFile, NonDictFile}
        \cup {DictFile(d) : d \in Dicts(SampleItems)}
FewStoreFiles ==
    {AbsentFile, EmptyFile, GarbageFile, NonDictFile, DictFile(<<>>),
     DictFile(<<Item(StrKey(Bob1), ListVal(<<Array(128, 0, <<>>)>>))>>),
     DictFile(<<Item(StrKey(Bob1), ListVal(<<>>))>>)}

\* images directories the provider may find
ResolverDirs == {<<>>, <<Lec1>>, <<Lec2>>, <<Lec1, Bob1>>, <<Lec2, ImgN>>}
ResolverFiles ==
    {<<ImgA>>, <<Lec1, ImgA>>, <<Lec1, Txt>>, <<Lec2, ImgB>>, <<Lec2, Xjpg>>,
     <<Lec1, Bob1, ImgA>>}
Trees(dirSet, fileSet) ==
    {t \in (SUBSET dirSet) \X (SUBSET fileSet) :
        WellFormedTree(t[1], t[2]) /\ Cardinality(t[2]) <= MaxFiles}
FewTrees ==
    { <<{}, {}>>,
      <<{<<>>, <<Lec1>>}, {<<Lec1, ImgA>>}>>,
      <<{<<>>, <<Lec1>>, <<Lec1, Bob1>>}, {<<Lec1, Bob1, ImgA>>}>> }

\* the arguments of EncodingProvider
FileArgs == {NoneValue, "", StorePath}
DirArgs == {NoneValue, "", FacesPath}

InitResolver ==
    /\ \E t \in Trees(ResolverDirs, ResolverFiles) \cup FewTrees :
          /\ dirs = t[1] /\ files = t[2]
          /\ IF t \in FewTrees THEN encFile \in StoreFiles ELSE encFile \in FewStoreFiles
    /\ processedFile = AbsentLedger /\ cropped = {}
    /\ ResolverOff("start") /\ EncoderOff("off") /\ MatcherOff("off")

\* images directories in the layout the encoder walks
PipelineDirs ==
    {<<>>, <<Lec1>>, <<Lec2>>, <<Lec1, Bob1>>, <<Lec1, Amy>>, <<Lec2, Bob1>>}
PipelineFiles ==
    {<<ImgA>>, <<Lec1, ImgA>>}
        \cup {join(<<Lec1, Bob1>>, n) : n \in {ImgA, ImgB, ImgN, ImgM, ImgE, Txt, Xjpg}}
        \cup {join(<<Lec1, Amy>>, n) : n \in {ImgA, ImgN}}
        \cup {join(<<Lec2, Bob1>>, n) : n \in {ImgA, ImgB}}

InitPipeline ==
    /\ \/ dirs = PipelineDirs
          /\ files \in {fs \in SUBSET PipelineFiles : Cardinality(fs) <= MaxFiles}
       \/ dirs = {} /\ files = {}
    /\ encFile = AbsentFile
    /\ processedFile \in {AbsentLedger, CorruptLedger} \cup {ListLedger({p}) : p \in files}
    /\ cropped = {}
    /\ ResolverOff("off") /\ EncoderOff("none") /\ MatcherOff("off")

\* the images directories of the runs in which ledger reads and writes fail
LedgerFaultFiles ==
    {join(<<Lec1, Bob1>>, n) : n \in {ImgA, ImgB, ImgN}}
        \cup {join(<<Lec1, Amy>>, ImgA), join(<<Lec2, Bob1>>, ImgA)}
InitLedgerFaults == InitPipeline /\ files \subseteq LedgerFaultFiles

\* the images directories of the runs that may be interrupted
InitInterrupted == InitPipeline /\ files \subseteq LedgerFaultFiles

\* stores the matcher may load, and the faces it may be asked about
MatcherXs == {0, 40, 90}
MatcherLists ==
    UNION {[1..n -> {Array(128, x, <<>>) : x \in MatcherXs}] : n \in 0..2}
MatcherItems == {Item(StrKey(k), ListVal(l)) : k \in {Bob1, Amy}, l \in MatcherLists}
MatcherStores ==
    {AbsentFile, EmptyFile, GarbageFile, NonDictFile}
        \cup {DictFile(d) : d \in Dicts(MatcherItems)}
Queries == {Array(128, x, <<>>) : x \in {0, 20, 30, 40, 41, 100}}

InitMatcher ==
    /\ dirs = {} /\ files = {}
    /\ encFile \in MatcherStores
    /\ processedFile = AbsentLedger /\ cropped = {}
    /\ ResolverOff("off") /\ EncoderOff("off") /\ MatcherOff("start")

\* stores the matcher may load before it is given frames, and the faces
\* _detect_faces may find in a frame
FrameLists ==
    {<<Array(128, 0, <<>>)>>, <<Array(128, 40, <<>>)>>,
     <<Array(128, 0, <<>>), Array(128, 40, <<>>)>>}
FrameItems ==
    {Item(StrKey(k), ListVal(l)) : k \in {Bob1, Amy, MaryAnn2}, l \in FrameLists}
FrameStores == {AbsentFile} \cup {DictFile(d) : d \in Dicts(FrameItems)}
FrameFaces == {Array(128, x, <<>>) : x \in {0, 40, 100}}
Frames == UNION {[1..n -> FrameFaces] : n \in 0..MaxFaces}

InitFrames ==
    /\ dirs = {} /\ files = {}
    /\ encFile \in FrameStores
    /\ processedFile = AbsentLedger /\ cropped = {}
    /\ ResolverOff("off") /\ EncoderOff("off") /\ MatcherOff("start")

-----------------------------------------------------------------------------
(* Specifications *)

NextResolver ==
    \/ \E file \in FileArgs, dir \in DirArgs : Construct(file, dir)
    \/ GetEncodingData

NextPipeline ==
    \/ NewEncoder
    \/ StartRun
    \/ NextLecture
    \/ EndLectures
    \/ NextStudent
    \/ EndStudents
    \/ NextImage
    \/ SaveProcessedImage
    \/ SaveCroppedImage
    \/ RemoveImage
    \/ EndImages
    \/ SaveEncodings

NextLedgerFaults ==
    \/ NextPipeline
    \/ NextStudentReadError
    \/ SaveProcessedImageReadError
    \/ SaveProcessedImageWriteError

NextInterrupted ==
    \/ NextPipeline
    \/ Interrupt

NextMatcher ==
    \/ ConstructMatcher
    \/ \E query \in Queries : GetFaceName(query)

NextFrames ==
    \/ ConstructMatcher
    \/ \E face_encodings \in Frames : ProcessFrame(face_encodings)

\* the provider alone
SpecResolver == InitResolver /\ [][NextResolver]_vars
\* the encoder alone: up to MaxRuns runs over one images directory
SpecPipeline == InitPipeline /\ [][NextPipeline]_vars
\* the encoder with reads and writes of the ledger that may fail
SpecLedgerFaults == InitLedgerFaults /\ [][NextLedgerFaults]_vars
\* the encoder with runs that may be interrupted
SpecInterrupted == InitInterrupted /\ [][NextInterrupted]_vars
\* the matcher alone
SpecMatcher == InitMatcher /\ [][NextMatcher]_vars
\* the matcher given whole frames
SpecFrames == InitFrames /\ [][NextFrames]_vars

Init ==
    \/ InitResolver \/ InitPipeline \/ InitLedgerFaults \/ InitInterrupted
    \/ InitMatcher \/ InitFrames
Next ==
    \/ NextResolver \/ NextLedgerFaults \/ NextInterrupted
    \/ NextMatcher \/ NextFrames
Spec == Init /\ [][Next]_vars

-----------------------------------------------------------------------------
(* Notions the properties below are stated with *)

\* the paths in the ledger file, as a reload from disk reads them
Ledger == load_processed_images(processedFile)

\* the paths _encode_image is called on by the step at hand
NewlyAttempted ==
    IF attempts' = attempts THEN {}
    ELSE IF Len(attempts') = Len(attempts)
         THEN attempts'[Len(attempts')] \ attempts[Len(attempts)]
         ELSE attempts'[Len(attempts')]

\* the store file holds embedding e under the identity key
StoreHas(f, identity, e) ==
    /\ f.kind = "pickle" /\ f.dict
    /\ StrKey(identity) \in DictKeys(f.items)
    /\ LET elems == DictGet(f.items, StrKey(identity)).elems
       IN  \E i \in 1..Len(elems) : elems[i] = e

\* for each embedding of the flattened store, the key it is stored under
RECURSIVE Owners(_)
Owners(items) ==
    IF items = <<>> THEN <<>>
    ELSE [i \in 1..Len(Head(items).val.elems) |-> Head(items).key.s]
             \o Owners(Tail(items))

\* the least distance of a query to the known embeddings, and the keys of the
\* embeddings at that distance
MinDistance(encs, query) ==
    CHOOSE d \in {face_distance(encs[i], query) : i \in 1..Len(encs)} :
        \A i \in 1..Len(encs) : d <= face_distance(encs[i], query)
NearestOwners(items, query) ==
    LET encs == ExtractEncodings(items)
    IN  {Owners(items)[i] : i \in {j \in 1..Len(encs) :
            face_distance(encs[j], query) = MinDistance(encs, query)}}

\* the EncodingStore invariant: keys are non-empty strings, values non-empty
\* lists of embeddings, all of one dimensionality
StoreInvariant(f) ==
    /\ f.kind = "pickle" /\ f.dict
    /\ \A i \in 1..Len(f.items) :
          /\ f.items[i].key.str /\ f.items[i].key.s # <<>>
          /\ f.items[i].val.list /\ f.items[i].val.elems # <<>>
          /\ \A k \in 1..Len(f.items[i].val.elems) : f.items[i].val.elems[k].arr
    /\ \A i, j \in 1..Len(f.items) :
          \A k \in 1..Len(f.items[i].val.elems), l \in 1..Len(f.items[j].val.elems) :
              f.items[i].val.elems[k].dim = f.items[j].val.elems[l].dim

\* a detected face is a confident match: some embedding is known and the
\* confidence of the nearest one reaches the threshold
ConfidentFace(encs, query) ==
    encs # <<>> /\ 100 - MinDistance(encs, query) >= MIN_CONFIDENCE_THRESHOLD

\* every identity of the store file has exactly one embedding
OneEmbeddingPerIdentity(f) ==
    \A i \in 1..Len(f.items) : Len(f.items[i].val.elems) = 1

\* an identity key without its trailing suffix "_n" (n a decimal number), the
\* key itself when it has no such suffix
Digits == {"0", "1", "2", "3", "4", "5", "6", "7", "8", "9"}
WithoutTrailingSuffix(key) ==
    LET at == {i \in 1..Len(key) : key[i] = "_"}
    IN  IF at = {} THEN key
        ELSE LET last == CHOOSE i \in at : \A j \in at : j <= i
             IN  IF last < Len(key) /\ \A j \in (last + 1)..Len(key) : key[j] \in Digits
                 THEN SubSeq(key, 1, last - 1)
                 ELSE key

\* the places in the flattened list of the embeddings nearest to a query
Nearest(encs, query) ==
    {i \in 1..Len(encs) : face_distance(encs[i], query) = MinDistance(encs, query)}

\* the embeddings of a dict that were computed from the image at a path
EmbeddingsOf(items, img_path) ==
    {<<i, k>> \in (1..Len(items)) \X (1..MaxFiles + 1) :
        k <= Len(items[i].val.elems) /\ items[i].val.elems[k].src = img_path}

\* the extension of a file name, without regard to case, is one of ".jpg",
\* ".jpeg", ".png"
AllowedExtension(name) == lower(splitext_ext(name)) \in valid_extensions

\* none of the inputs supplied to the provider is valid
NoValidInput ==
    /\ Truthy(facial_encodings_file) => ~IsValidEncodingFile(encFile)
    /\ Truthy(known_faces_dir) => ~IsValidFacesDir

-----------------------------------------------------------------------------
(* Properties *)

\* C1: with a store path and an images directory both given, the store invalid
\* and the directory valid, get_encoding_data returns the path of a store
\* built from the directory: a valid store file, with one key for each
\* identity folder (one key for one folder with one image).
C1_InvalidStoreValidDirBuilds ==
    [][(/\ rpc = "fields_set" /\ rpc' = "resolved"
        /\ Truthy(facial_encodings_file) /\ Truthy(known_faces_dir)
        /\ ~IsValidEncodingFile(encFile) /\ IsValidFacesDir)
          => /\ initRaised = NoneValue
             /\ result' \notin {NoneValue, ""}
             /\ IsValidEncodingFile(encFile')
             /\ (dirs = {<<>>, <<Lec1>>} /\ files = {<<Lec1, ImgA>>})
                   => Len(encFile'.items) = 1]_vars

C3_FailsExactlyWithoutValidInput ==
    rpc = "resolved" =>
        /\ (result = NoneValue) <=> NoValidInput
        /\ ~NoValidInput => result \notin {NoneValue, ""}

\* C4: a path that is in the ledger stays in the ledger through every step
\* (also a record of another path), and a membership check made for it after
\* a reload finds it, so that _encode_image is not called on it.
C4_RecordedPathStaysRecorded ==
    [][\A p \in Ledger : p \in Ledger' /\ p \notin NewlyAttempted]_vars

\* C4 witness: the walk is in a student folder whose ledger was reloaded after
\* another path q was recorded in this run; the ledgered file p of the folder
\* has been visited and was skipped
C4_Witness ==
    /\ epc = "images"
    /\ \E f \in listdir(<<curLec, curStu>>) \ imgTodo :
          /\ is_valid_image_type(f)
          /\ <<curLec, curStu, f>> \in processed_images
          /\ <<curLec, curStu, f>> \notin attempts[Len(attempts)]
          /\ \E q \in attempts[Len(attempts)] :
                q \in processed_images /\ q \in Ledger /\ <<curLec, curStu, f>> \in Ledger

\* C5 as stated: the second run over the same directory calls _encode_image
\* on no image.
C5_SecondRunEncodesNothing ==
    \A r \in 2..Len(attempts) : attempts[r] = {}

\* C5 amended: a later run calls _encode_image only on images on which the
\* run before it failed (no face, several faces, an error), and once it is
\* complete it has called it on each of them.
C5_SecondRunRetriesOnlyFailures ==
    \A r \in 2..Len(attempts) :
        LET failed == {p \in attempts[r - 1] : encode_image(p) = NoneEncoding}
        IN  /\ attempts[r] \subseteq failed
            /\ run >= r => attempts[r] = failed

\* C5 witness: two complete runs; the second skipped an image the first had
\* encoded and tried again one the first had failed on
C5_Witness ==
    /\ run = 2 /\ epc = "idle"
    /\ attempts[2] # {}
    /\ \E p \in attempts[1] : encode_image(p) # NoneEncoding /\ p \notin attempts[2]

\* C6: after a complete run the store file holds, under the identity of its
\* folder, the embedding of every image the run encoded.
C6_StoreHoldsEveryEncodedImage ==
    (epc = "idle" /\ run >= 1 /\ Len(attempts) = run) =>
        \A p \in attempts[run] :
            encode_image(p) # NoneEncoding => StoreHas(encFile, p[2], encode_image(p))

\* C7: with at least one known embedding a match has two outcomes: for a
\* confidence (1 - least distance) below 0.60 the pair (None, None), nothing
\* logged; otherwise the display name of the identity that owns a nearest
\* embedding, with that confidence; distance 0 from the only embedding of
\* "bob_1" gives ("bob", 1.0).  Stated for the stores the validator accepts.
C7_MatchHasTwoOutcomes ==
    [][(queries' = queries + 1 /\ known_face_encodings # <<>>
            /\ IsValidEncodingFile(encFile))
          => LET confidence == 100 - MinDistance(known_face_encodings, lastQuery')
             IN  IF confidence < 60
                 THEN lastMatch' = NonePair /\ attendance' = attendance
                 ELSE /\ \E o \in NearestOwners(encFile.items, lastQuery') :
                            lastMatch' = Pair(SplitFirst(o), confidence)
                      /\ (confidence = 100
                            /\ NearestOwners(encFile.items, lastQuery') = {Bob1})
                           => lastMatch' = Pair(<<"b", "o", "b">>, 100)]_vars

\* C8: a matcher whose store is missing, unreadable or holds no embedding
\* answers every query with ("Unknown", 0.0) and logs no attendance.
C8_NoKnownFacesIsUnknown ==
    (/\ mpc = "ready"
     /\ \/ ~LoadsObject(encFile)
        \/ encFile.dict /\ ExtractEncodings(encFile.items) = <<>>)
        => /\ queries > 0 => lastMatch = UnknownPair
           /\ attendance = <<>>

\* C8 witness: two queries were answered from a store holding the empty mapping
C8_Witness ==
    /\ mpc = "ready" /\ encFile = DictFile(<<>>)
    /\ queries >= 2 /\ lastMatch = UnknownPair

\* C9: the names and the encodings of the matcher are parallel: as many names
\* as encodings, the name at i the key encoding i is stored under; so the name
\* of a match is that of the identity owning a nearest embedding.  Stated for
\* the stores the validator accepts.
C9_NamesParallelToEncodings ==
    (mpc = "ready" /\ IsValidEncodingFile(encFile)) =>
        /\ Len(known_face_names) = Len(known_face_encodings)
        /\ known_face_names = Owners(encFile.items)
        /\ lastMatch.kind = "match" =>
              \E o \in NearestOwners(encFile.items, lastQuery) :
                  lastMatch.name = SplitFirst(o)

\* C10: a store file that _is_valid_encoding_file accepts (the provider took a
\* branch that reuses it) satisfies the EncodingStore invariant.
C10_AcceptedStoreIsWellFormed ==
    (rpc = "resolved" /\ branch \in ReuseBranches) => StoreInvariant(encFile)

\* C11: process_frame returns normally for every loaded store (also one where
\* an identity has several embeddings) and every list of detected faces: no
\* exception leaves it.
C11_ProcessFrameReturns ==
    (frames > 0 /\ IsValidEncodingFile(encFile)) => frameRaised = NoneValue

\* C12: for every combination of absent, invalid or valid store path and
\* images directory, constructing the provider and calling get_encoding_data
\* completes without raising and yields a store path or None.
C12_ResolverNeverRaises ==
    /\ rpc \in {"fields_set", "resolved"} => initRaised = NoneValue
    /\ rpc = "resolved" => result \in {NoneValue, facial_encodings_file}

\* C13: a failure on one image (no face, several faces, an error) does not
\* end the walk: when a run is complete, every file of an allowed type left
\* in an identity folder and not in the ledger was attempted in that run, and
\* the run ended with the save of the store.
C13_FailureDoesNotAbortWalk ==
    (epc = "idle" /\ Len(attempts) >= 1) =>
        /\ \A p \in files :
              (Len(p) = 3 /\ isdir(dirname(p)) /\ is_valid_image_type(basename(p))
                  /\ p \notin Ledger) => p \in attempts[Len(attempts)]
        /\ run = Len(attempts)
        /\ encFile.kind = "pickle" /\ encFile.dict

\* C13 witness: a complete run that met an image it could not decode, a second
\* image of the same folder and an image of another folder, and attempted all
\* three
C13_Witness ==
    /\ epc = "idle" /\ run = 1
    /\ \E p, q, o \in attempts[1] :
          /\ face_locations(p) = -1
          /\ q # p /\ dirname(q) = dirname(p)
          /\ dirname(o) # dirname(p)

\* C14: in every frame the attendance logger is called exactly once for each
\* detected face that is a confident match (so the same person in two frames
\* is logged twice), and never for a face below the threshold or answered
\* with "Unknown".  Stated for the stores the validator accepts.
C14_LoggedOncePerConfidentFace ==
    [][(frames' = frames + 1 /\ IsValidEncodingFile(encFile))
          => LET confident == {i \in 1..Len(lastFrame') :
                                ConfidentFace(known_face_encodings, lastFrame'[i])}
             IN  Len(attendance') = Len(attendance) + Cardinality(confident)]_vars

\* C15: the name displayed for a confident match is the identity key without
\* its trailing suffix "_n": "bob_1" gives "bob", a key without a suffix is
\* displayed as it is, "mary_ann_2" gives "mary_ann".  Stated for a frame with
\* one face and a store with one embedding for each identity.
C15_DisplayNameDropsTrailingSuffix ==
    (/\ frames > 0 /\ frameRaised = NoneValue
     /\ IsValidEncodingFile(encFile) /\ OneEmbeddingPerIdentity(encFile)
     /\ Len(lastFrame) = 1 /\ Len(face_data) = 1 /\ face_data[1].kind = "match")
        => \E o \in NearestOwners(encFile.items, lastFrame[1]) :
              face_data[1].name = WithoutTrailingSuffix(o)

\* C16: the ledger file grows monotonically: through every load and record,
\* also one whose read of the ledger fails and is taken for an empty ledger,
\* the paths in the file are a superset of the paths it held before.
C16_LedgerGrowsMonotonically ==
    [][Ledger \subseteq Ledger']_vars

\* C17: after a run the archive holds, for each image that was encoded, a crop
\* of that image under the name made from its base name; so two encoded
\* images with the same base name in different identity folders each have
\* their crop.
C17_OneCropPerEncodedImage ==
    (epc = "idle" /\ run >= 1) =>
        \A r \in 1..run : \A p \in attempts[r] :
            encode_image(p) # NoneEncoding => <<CropName(p), p>> \in cropped

C19_RejectedImageChangesNothing ==
    \A r \in 1..Len(attempts) : \A p \in attempts[r] :
        face_locations(p) \in {0, 2} =>
            /\ p \in files
            /\ p \notin Ledger
            /\ \A c \in cropped : c[2] # p
            /\ \A k \in 1..Len(encodings) : encodings[k].src # p
            /\ EmbeddingsOf(student_data, p) = {}
            /\ EmbeddingsOf(encFile.items, p) = {}

\* C19 witness: a complete run attempted an image without a face, an image
\* with two faces and an image with one face; the last is gone from disk
C19_Witness ==
    /\ epc = "idle" /\ run = 1
    /\ \E p, q, o \in attempts[1] :
          /\ face_locations(p) = 0 /\ face_locations(q) = 2
          /\ face_locations(o) = 1 /\ o \notin files /\ o \in Ledger

\* C20: for an encoded image the effects come in the order crop, ledger,
\* delete: when its path has been marked in the ledger its crop is in the
\* archive, and its file is deleted only when both are done; in particular a
\* deleted source is in the ledger.
C20_CropThenLedgerThenDelete ==
    /\ epc = "marked" => <<CropName(curImg), curImg>> \in cropped
    /\ \A r \in 1..Len(attempts) : \A p \in attempts[r] :
          p \notin files => (p \in Ledger /\ \E c \in cropped : c[1] = CropName(p))

\* C21: in every run _encode_image is never called on an image whose path is
\* in the ledger file, and never on a file whose extension is outside the
\* allow-list.
C21_OnlyUnledgeredAllowedTypesEncoded ==
    [][\A p \in NewlyAttempted :
          p \notin Ledger /\ AllowedExtension(basename(p))]_vars

\* C22: when a run is interrupted before the save of the store, the ledger
\* file holds the paths of the images the run had processed (encoded, marked,
\* deleted), the store file holds no embedding of an image the run had
\* marked, and no later run calls _encode_image on such an image.
C22_InterruptedRunLedgersWithoutEmbeddings ==
    \A i \in interrupted :
        /\ i.processed \subseteq i.marked
        /\ \A p \in i.marked :
              /\ p \in Ledger
              /\ EmbeddingsOf(encFile.items, p) = {}
              /\ \A later \in (i.run + 1)..Len(attempts) : p \notin attempts[later]

\* C22 witness: the first run was interrupted after it had processed one
\* image and marked another that is still on disk; the next run is complete,
\* it encoded a further image and its store is saved
C22_Witness ==
    /\ Len(attempts) = 2 /\ run = 1 /\ epc = "idle"
    /\ \E i \in interrupted :
          /\ i.run = 1
          /\ \E p \in i.processed, q \in i.marked : q \in files
    /\ \E o \in attempts[2] : EmbeddingsOf(encFile.items, o) # {}

C24_StoreNeverLosesEmbeddings ==
    [][\A p \in PipelineFiles :
          EmbeddingsOf(encFile.items, p) # {} => EmbeddingsOf(encFile'.items, p) # {}]_vars

\* C25: in a frame process_frame returns from, every box carries the name and
\* the confidence _get_face_name computes for the face at the place of the
\* box, and a face below the threshold has no box, whatever the order of the
\* faces.  Stated for stores with one embedding for each identity.
C25_BoxesCarryTheirOwnFace ==
    (/\ frames > 0 /\ frameRaised = NoneValue
     /\ IsValidEncodingFile(encFile) /\ OneEmbeddingPerIdentity(encFile))
        => \A k \in 1..Len(drawn) :
              LET own == get_face_name(known_face_encodings, known_face_names,
                                       lastFrame[drawn[k].at])
              IN  /\ own.kind # "none"
                  /\ drawn[k].name = own.name /\ drawn[k].conf = own.conf

====
